---- MODULE Spec2Model ----
(***************************************************************************)
(* Model of the viewport engine of src/components/ui/Map.vue: the pan/zoom *)
(* transform state, the pointer and wheel handlers and the derived grid    *)
(* variables.                                                              *)
(*                                                                         *)
(* Numbers.  The component computes on JavaScript numbers.  A number is    *)
(* modelled as a pair <<n, d>> in lowest terms, d >= 0: the exact rational *)
(* n/d for d > 0, and for d = 0 the three non-finite values <<1,0>>        *)
(* (+Infinity), <<-1,0>> (-Infinity) and <<0,0>> (NaN).  Arithmetic is     *)
(* exact: binary rounding and the sign of zero are not modelled.           *)
(***************************************************************************)
EXTENDS Integers, FiniteSets, Sequences, TLC

(***************************************************************************)
(* Bound of the model: the number of events that change pan or zoom (wheel *)
(* steps and moves of a drag) taken in one run.                            *)
(***************************************************************************)
MaxSteps == 3

(***************************************************************************)
(* JavaScript number arithmetic.                                           *)
(***************************************************************************)
Abs(i) == IF i < 0 THEN -i ELSE i

Sign(i) == IF i < 0 THEN -1 ELSE IF i > 0 THEN 1 ELSE 0

RECURSIVE GCD(_, _)
GCD(a, b) == IF b = 0 THEN a ELSE GCD(b, a % b)

Norm(n, d) ==
  IF d = 0 THEN <<Sign(n), 0>>
  ELSE LET g == GCD(Abs(n), Abs(d))
           s == IF d < 0 THEN -1 ELSE 1
       IN  <<(s * n) \div g, Abs(d) \div g>>

NaN == <<0, 0>>
PosInf == <<1, 0>>
NegInf == <<-1, 0>>
Zero == <<0, 1>>

I2N(i) == <<i, 1>>

IsNaN(a) == a = NaN
IsFinite(a) == a[2] > 0

Neg(a) == <<-a[1], a[2]>>

Add(a, b) ==
  IF a[2] = 0 /\ b[2] = 0
  THEN IF a = b THEN a ELSE NaN
  ELSE Norm(a[1] * b[2] + b[1] * a[2], a[2] * b[2])

Sub(a, b) == Add(a, Neg(b))

Mul(a, b) == Norm(a[1] * b[1], a[2] * b[2])

Div(a, b) ==
  LET s == IF b[1] < 0 THEN -1 ELSE 1
  IN  Norm(s * a[1] * b[2], a[2] * Abs(b[1]))

\* a < b, a > b, a <= b on numbers; every comparison with NaN is false
Lt(a, b) ==
  /\ ~IsNaN(a)
  /\ ~IsNaN(b)
  /\ IF a[2] = 0 /\ b[2] = 0 THEN a[1] < b[1] ELSE a[1] * b[2] < b[1] * a[2]

Gt(a, b) == Lt(b, a)

Le(a, b) == ~IsNaN(a) /\ ~IsNaN(b) /\ ~Lt(b, a)

MathMax(a, b) == IF IsNaN(a) \/ IsNaN(b) THEN NaN ELSE IF Lt(a, b) THEN b ELSE a

MathMin(a, b) == IF IsNaN(a) \/ IsNaN(b) THEN NaN ELSE IF Lt(b, a) THEN b ELSE a

\* the integer part of a finite number, rounded toward zero
Trunc(a) == I2N(Sign(a[1]) * (Abs(a[1]) \div a[2]))

\* the remainder operator n % m: the result has the sign of the dividend
Rem(n, m) ==
  IF IsNaN(n) \/ IsNaN(m) \/ ~IsFinite(n) \/ m = Zero THEN NaN
  ELSE IF ~IsFinite(m) THEN n
  ELSE Sub(n, Mul(m, Trunc(Div(n, m))))

(***************************************************************************)
(* Map.vue, line 41 and 42.                                                *)
(***************************************************************************)
\* the clamp without its lower bound
clampNoFloor(v, a, b) == MathMin(b, v)

clamp(v, a, b) == MathMax(a, MathMin(b, v))

\* the remainder alone, without the normalisation of line 42
modRemainder(n, m) == Rem(n, m)

mod(n, m) == Rem(Add(Rem(n, m), m), m)

(***************************************************************************)
(* Inputs.  Points are the clientX/clientY pairs of the events, RectOrigins *)
(* the left/top of the viewport's bounding rectangle, WheelDeltas the      *)
(* deltaY values of the wheel events, PointerIds the pointer devices.      *)
(***************************************************************************)
Points == {<<50, 50>>, <<70, 65>>}

RectOrigins == {<<20, 15>>}

WheelDeltas == {-120, 0, 3, 120}

PointerIds == {1}

PointerEvent(p, id) == [clientX |-> p[1], clientY |-> p[2], pointerId |-> id]

WheelEvent(p, dy) == [clientX |-> p[1], clientY |-> p[2], deltaY |-> dy]

(***************************************************************************)
(* The props (lines 11-29).  DefaultProps are the defaults of withDefaults; *)
(* the other records are props a parent can pass: the component declares   *)
(* them as numbers and checks nothing.  Only finite props are drawn.       *)
(***************************************************************************)
Props(cell, big, mn, mx, iz) ==
  [cellSize |-> cell, bigCellSize |-> big, minZoom |-> mn, maxZoom |-> mx,
   initialZoom |-> iz]

DefaultProps == Props(I2N(32), I2N(160), Norm(25, 100), I2N(3), I2N(1))

PropChoices ==
  { DefaultProps,
    \* a narrow valid range: one step in from initialZoom is maxZoom, one step
    \* out is below minZoom
    Props(I2N(32), I2N(160), Norm(19, 20), Norm(11, 10), I2N(1)),
    \* valid bounds, initialZoom above maxZoom
    Props(I2N(32), I2N(160), Norm(1, 2), I2N(2), I2N(3)),
    \* valid bounds, initialZoom zero
    Props(I2N(32), I2N(160), Norm(1, 2), I2N(2), I2N(0)),
    \* minZoom > maxZoom and non-positive cell sizes
    Props(I2N(0), I2N(-160), I2N(2), I2N(1), I2N(1)) }

\* the configuration contract of the specification, section 3
ValidZoomBounds(p) == Lt(Zero, p.minZoom) /\ Le(p.minZoom, p.maxZoom)

ValidConfig(p) == ValidZoomBounds(p) /\ Lt(Zero, p.cellSize) /\ Lt(Zero, p.bigCellSize)

(***************************************************************************)
(* State.  props, viewportRef, pan, zoom, dragging, last and cursorStyle   *)
(* are the component's own (lines 11-38).  The remaining variables record  *)
(* history.  h is the last event handled: its type (op), the drag flag     *)
(* when its handler was entered, whether an exception left the handler,    *)
(* whether the handler prevented the event's default, and what became of   *)
(* the release of the pointer capture.  g is the drag gesture since the    *)
(* last pointer-down: the pan and the position at the pointer-down, the    *)
(* position of its last move, the number of its moves and the sum of       *)
(* their deltas, the pointer that started it and whether that pointer is   *)
(* still down; a wheel event ends the record (wheel).  A pointer-down of   *)
(* another pointer while the starting pointer is down in a drag is kept as *)
(* second, and starterAt is where the starting pointer was last seen.      *)
(* nWheel and nMove count the zoom and pan steps.                          *)
(***************************************************************************)
VARIABLES props, viewportRef, pan, zoom, dragging, last, cursorStyle,
          h, g, nWheel, nMove

vars == <<props, viewportRef, pan, zoom, dragging, last, cursorStyle,
          h, g, nWheel, nMove>>

Vec(x, y) == [x |-> x, y |-> y]

Handled(op, wasDragging, threw, prevented, release) ==
  [op |-> op, wasDragging |-> wasDragging, threw |-> threw, prevented |-> prevented,
   release |-> release]

NoGesture == [panAtDown |-> Vec(Zero, Zero), downAt |-> Vec(0, 0), q |-> Vec(0, 0),
              moves |-> 0, sum |-> Vec(0, 0), wheel |-> FALSE, pointerId |-> 0,
              held |-> FALSE, second |-> 0, starterAt |-> Vec(0, 0)]

\* lines 31-38: the state after setup and mount
Init ==
  /\ props \in PropChoices
  /\ viewportRef = TRUE
  /\ pan = Vec(Zero, Zero)
  /\ zoom = props.initialZoom
  /\ dragging = FALSE
  /\ last = Vec(0, 0)
  /\ cursorStyle = "cursor-default"
  /\ h = Handled("mount", FALSE, FALSE, FALSE, "none")
  /\ g = NoGesture
  /\ nWheel = 0
  /\ nMove = 0

\* the gesture record after the pointer-down e
DownGesture(e) ==
  LET at == Vec(e.clientX, e.clientY)
      other == dragging /\ g.held /\ g.pointerId # 0 /\ e.pointerId # g.pointerId
  IN  [panAtDown |-> pan, downAt |-> at, q |-> at, moves |-> 0, sum |-> Vec(0, 0),
       wheel |-> FALSE,
       pointerId |-> IF other THEN g.pointerId ELSE e.pointerId,
       held |-> TRUE,
       second |-> IF other THEN e.pointerId ELSE 0,
       starterAt |-> IF other THEN g.starterAt ELSE at]

\* the pointer-down handler, had it reset the zoom to its initial value
OnPointerDownResetsZoom(e, raises) ==
  /\ dragging' = TRUE
  /\ cursorStyle' = "cursor-move"
  /\ last' = Vec(e.clientX, e.clientY)
  /\ zoom' = props.initialZoom
  /\ h' = Handled("pointerdown", dragging, raises, FALSE, "none")
  /\ g' = DownGesture(e)
  /\ UNCHANGED <<props, viewportRef, pan, nWheel, nMove>>

\* lines 44-49; raises: setPointerCapture throws
OnPointerDown(e, raises) ==
  /\ dragging' = TRUE
  /\ cursorStyle' = "cursor-move"
  /\ last' = Vec(e.clientX, e.clientY)
  /\ h' = Handled("pointerdown", dragging, raises, FALSE, "none")
  /\ g' = DownGesture(e)
  /\ UNCHANGED <<props, viewportRef, pan, zoom, nWheel, nMove>>

\* the pan after a move, kept from going negative
PanAfterMoveClamped(pn, lst, e) ==
  LET dx == e.clientX - lst.x
      dy == e.clientY - lst.y
  IN  Vec(MathMax(Zero, Add(pn.x, I2N(dx))), MathMax(Zero, Add(pn.y, I2N(dy))))

\* the pan set to the delta of the move instead of moved by it
PanAfterMoveAbsolute(pn, lst, e) ==
  LET dx == e.clientX - lst.x
      dy == e.clientY - lst.y
  IN  Vec(I2N(dx), I2N(dy))

\* lines 53-54 and 56: the pan after a move to e while dragging
PanAfterMove(pn, lst, e) ==
  LET dx == e.clientX - lst.x
      dy == e.clientY - lst.y
  IN  Vec(Add(pn.x, I2N(dx)), Add(pn.y, I2N(dy)))

\* the last pointer position left as it was
LastAfterMoveStale(lst, e) == lst

\* line 55
LastAfterMove(lst, e) == Vec(e.clientX, e.clientY)

\* the handler without the guard of line 52
MoveAppliesAlways(drag) == TRUE

\* line 52: the handler goes on only while dragging
MoveApplies(drag) == drag

\* lines 51-57
OnPointerMove(e) ==
  IF ~MoveApplies(dragging)
  THEN /\ h' = Handled("pointermove", dragging, FALSE, FALSE, "none")
       /\ UNCHANGED <<props, viewportRef, pan, zoom, dragging, last, cursorStyle,
                      g, nWheel, nMove>>
  ELSE /\ nWheel + nMove < MaxSteps
       /\ last' = LastAfterMove(last, e)
       /\ pan' = PanAfterMove(pan, last, e)
       /\ h' = Handled("pointermove", dragging, FALSE, FALSE, "none")
       /\ g' = [g EXCEPT !.q = Vec(e.clientX, e.clientY), !.moves = @ + 1,
                         !.sum = Vec(@.x + (e.clientX - last.x),
                                     @.y + (e.clientY - last.y)),
                         !.starterAt = IF e.pointerId = g.pointerId
                                       THEN Vec(e.clientX, e.clientY) ELSE @]
       /\ nMove' = nMove + 1
       /\ UNCHANGED <<props, viewportRef, zoom, dragging, cursorStyle, nWheel>>

\* the release without the try/catch of lines 62-64
ReleaseThrowsUncaught(raises) == raises

\* lines 62-64: the exception of a failed release is caught and dropped
ReleaseThrows(raises) == FALSE

\* line 60
DraggingAfterUp(drag) == FALSE

\* lines 59-65, bound to pointerup and to pointercancel (lines 122-123);
\* raises: releasePointerCapture throws
OnPointerUp(e, type, raises) ==
  /\ dragging' = DraggingAfterUp(dragging)
  /\ cursorStyle' = "cursor-default"
  /\ h' = Handled(type, dragging, ReleaseThrows(raises), FALSE,
                  IF raises THEN "raised" ELSE "released")
  /\ g' = IF e.pointerId = g.pointerId THEN [g EXCEPT !.held = FALSE]
          ELSE IF e.pointerId = g.second THEN [g EXCEPT !.second = 0]
          ELSE g
  /\ UNCHANGED <<props, viewportRef, pan, zoom, last, nWheel, nMove>>

\* a factor that grows with the size of the wheel delta
FactorProportional(deltaY) == Norm(1000 - deltaY, 1000)

\* line 77
Factor(deltaY) == IF deltaY > 0 THEN Norm(9, 10) ELSE Norm(11, 10)

\* the zoom step without the clamp of line 78
NewZoomUnclamped(oldZoom, deltaY, p) == Mul(oldZoom, Factor(deltaY))

\* line 78
NewZoom(oldZoom, deltaY, p) == clamp(Mul(oldZoom, Factor(deltaY)), p.minZoom, p.maxZoom)

\* lines 80-81: the world coordinate under the cursor coordinate c
World(c, panAxis, oldZoom) == Div(Sub(c, panAxis), oldZoom)

\* lines 84-85
PanAxisAfterZoom(c, world, newZoom) == Sub(c, Mul(world, newZoom))

\* lines 72-74: the cursor relative to the viewport's rectangle
Cursor(e, rect) == Vec(I2N(e.clientX - rect[1]), I2N(e.clientY - rect[2]))

\* the pan after a wheel step that takes the world point with the new zoom
PanAfterZoomByNewZoom(c, pn, oldZoom, newZoom) ==
  Vec(PanAxisAfterZoom(c.x, World(c.x, pn.x, newZoom), oldZoom),
      PanAxisAfterZoom(c.y, World(c.y, pn.y, newZoom), oldZoom))

\* the pan after a wheel step that scales about the origin, not the cursor
PanAfterZoomAboutOrigin(c, pn, oldZoom, newZoom) ==
  Vec(Mul(pn.x, Div(newZoom, oldZoom)), Mul(pn.y, Div(newZoom, oldZoom)))

\* lines 80-86: the pan after a wheel step at cursor c
PanAfterZoom(c, pn, oldZoom, newZoom) ==
  Vec(PanAxisAfterZoom(c.x, World(c.x, pn.x, oldZoom), newZoom),
      PanAxisAfterZoom(c.y, World(c.y, pn.y, oldZoom), newZoom))

\* the wheel handler, had it recorded the cursor as the last pointer position
OnWheelRecordsCursor(e, rect) ==
  IF ~viewportRef
  THEN /\ h' = Handled("wheel", dragging, FALSE, FALSE, "none")
       /\ UNCHANGED <<props, viewportRef, pan, zoom, dragging, last, cursorStyle,
                      g, nWheel, nMove>>
  ELSE /\ nWheel + nMove < MaxSteps
       /\ LET c == Cursor(e, rect)
              oldZoom == zoom
              newZoom == NewZoom(oldZoom, e.deltaY, props)
          IN  /\ zoom' = newZoom
              /\ pan' = PanAfterZoom(c, pan, oldZoom, newZoom)
       /\ last' = Vec(e.clientX, e.clientY)
       /\ h' = Handled("wheel", dragging, FALSE, TRUE, "none")
       /\ g' = [NoGesture EXCEPT !.wheel = TRUE, !.pointerId = g.pointerId,
                                 !.held = g.held, !.second = g.second,
                                 !.starterAt = g.starterAt]
       /\ nWheel' = nWheel + 1
       /\ UNCHANGED <<props, viewportRef, dragging, cursorStyle, nMove>>

\* lines 68-88; rect: what getBoundingClientRect returns
OnWheel(e, rect) ==
  IF ~viewportRef
  THEN /\ h' = Handled("wheel", dragging, FALSE, FALSE, "none")
       /\ UNCHANGED <<props, viewportRef, pan, zoom, dragging, last, cursorStyle,
                      g, nWheel, nMove>>
  ELSE /\ nWheel + nMove < MaxSteps
       /\ LET c == Cursor(e, rect)
              oldZoom == zoom
              newZoom == NewZoom(oldZoom, e.deltaY, props)
          IN  /\ zoom' = newZoom
              /\ pan' = PanAfterZoom(c, pan, oldZoom, newZoom)
       /\ h' = Handled("wheel", dragging, FALSE, TRUE, "none")
       /\ g' = [NoGesture EXCEPT !.wheel = TRUE, !.pointerId = g.pointerId,
                                 !.held = g.held, !.second = g.second,
                                 !.starterAt = g.starterAt]
       /\ nWheel' = nWheel + 1
       /\ UNCHANGED <<props, viewportRef, dragging, last, cursorStyle, nMove>>

\* lines 31 and 116: the template ref is set back to null when the component
\* is unmounted; the element and its listeners can outlive that
Unmount ==
  /\ viewportRef
  /\ viewportRef' = FALSE
  /\ h' = Handled("unmount", dragging, FALSE, FALSE, "none")
  /\ UNCHANGED <<props, pan, zoom, dragging, last, cursorStyle, g, nWheel, nMove>>

\* lines 120-124: the listeners of the viewport element
PointerDown == \E p \in Points, id \in PointerIds, raises \in BOOLEAN :
                 OnPointerDown(PointerEvent(p, id), raises)

PointerMove == \E p \in Points, id \in PointerIds : OnPointerMove(PointerEvent(p, id))

PointerUp == \E id \in PointerIds, raises \in BOOLEAN :
               OnPointerUp([pointerId |-> id], "pointerup", raises)

PointerCancel == \E id \in PointerIds, raises \in BOOLEAN :
                   OnPointerUp([pointerId |-> id], "pointercancel", raises)

Wheel == \E p \in Points, dy \in WheelDeltas, rect \in RectOrigins :
           OnWheel(WheelEvent(p, dy), rect)

Next == PointerDown \/ PointerMove \/ PointerUp \/ PointerCancel \/ Wheel \/ Unmount

Spec == Init /\ [][Next]_vars

\* the props that keep the configuration contract: positive cell sizes,
\* 0 < minZoom <= maxZoom and an initial zoom inside the bounds
InContract(p) ==
  /\ ValidConfig(p)
  /\ Le(p.minZoom, p.initialZoom)
  /\ Le(p.initialZoom, p.maxZoom)

\* the component mounted with props that keep the contract
InitInContract == Init /\ InContract(props)

SpecInContract == InitInContract /\ [][Next]_vars

\* two pointer devices on the viewport element at once
TwoPointerIds == {1, 2}

PointerDownOfTwo == \E p \in Points, id \in TwoPointerIds, raises \in BOOLEAN :
                      OnPointerDown(PointerEvent(p, id), raises)

PointerMoveOfTwo == \E p \in Points, id \in TwoPointerIds :
                      OnPointerMove(PointerEvent(p, id))

PointerUpOfTwo == \E id \in TwoPointerIds, raises \in BOOLEAN :
                    OnPointerUp([pointerId |-> id], "pointerup", raises)

PointerCancelOfTwo == \E id \in TwoPointerIds, raises \in BOOLEAN :
                        OnPointerUp([pointerId |-> id], "pointercancel", raises)

NextTwoPointers ==
  \/ PointerDownOfTwo
  \/ PointerMoveOfTwo
  \/ PointerUpOfTwo
  \/ PointerCancelOfTwo
  \/ Wheel
  \/ Unmount

\* the component mounted with the default props
InitDefault == Init /\ props = DefaultProps

SpecTwoPointers == InitDefault /\ [][NextTwoPointers]_vars

\* lines 95-107: the numbers of the grid variables
cssVars ==
  LET cellZ == Mul(props.cellSize, zoom)
      bigZ == Mul(props.bigCellSize, zoom)
  IN  [cellz |-> cellZ, bigz |-> bigZ,
       offx |-> mod(pan.x, cellZ), offy |-> mod(pan.y, cellZ),
       offxb |-> mod(pan.x, bigZ), offyb |-> mod(pan.y, bigZ)]

\* line 91: the transform draws world point w at screen point pan + w * zoom;
\* the world point drawn at screen point c
ScreenToWorld(c, pn, z) == Vec(Div(Sub(c.x, pn.x), z), Div(Sub(c.y, pn.y), z))

(***************************************************************************)
(* Properties.                                                             *)
(***************************************************************************)
ZoomInBounds == Le(props.minZoom, zoom) /\ Le(zoom, props.maxZoom)

\* C1: with 0 < minZoom <= maxZoom, after every wheel event that reaches the
\* zoom step (the handler passed its guard and prevented the default),
\* minZoom <= zoom <= maxZoom.
C1_ZoomBoundedAfterWheel ==
  (ValidZoomBounds(props) /\ h.op = "wheel" /\ h.prevented) => ZoomInBounds

\* a wheel step has brought a zoom that started above maxZoom into the bounds
C1_Witness ==
  /\ ValidZoomBounds(props)
  /\ Lt(props.maxZoom, props.initialZoom)
  /\ h.op = "wheel" /\ h.prevented
  /\ zoom = props.maxZoom

\* C2: with 0 < minZoom <= maxZoom, minZoom <= zoom <= maxZoom in every
\* reachable state, the state at mount included.
C2_ZoomAlwaysInBounds == ValidZoomBounds(props) => ZoomInBounds

\* C3: a wheel step whose result zoom * factor is not clamped, taken with
\* zoom > 0, keeps the world point under the cursor: the world point at the
\* cursor before the step is the world point at the cursor after it.
C3_ZoomAnchoring ==
  [][\A p \in Points, dy \in WheelDeltas, rect \in RectOrigins :
       ( /\ viewportRef /\ h'.prevented
         /\ Gt(zoom, Zero)
         /\ zoom' = Mul(zoom, Factor(dy))
         /\ OnWheel(WheelEvent(p, dy), rect) )
       => LET c == Cursor(WheelEvent(p, dy), rect)
          IN  ScreenToWorld(c, pan', zoom') = ScreenToWorld(c, pan, zoom)]_vars

\* an unclamped wheel step has been taken from a pan that was not zero
C3_Witness ==
  /\ props = DefaultProps
  /\ h.op = "wheel" /\ h.prevented
  /\ nWheel = 1 /\ nMove = 1 /\ g.wheel
  /\ zoom = Norm(11, 10)
  /\ pan.x # Zero

\* C4: with 0 < minZoom <= maxZoom, a zoom-in wheel step taken at
\* zoom = maxZoom, and a zoom-out wheel step taken at zoom = minZoom, leave
\* zoom and pan as they are.
C4_ClampIdempotence ==
  [][\A p \in Points, dy \in WheelDeltas, rect \in RectOrigins :
       ( /\ viewportRef /\ h'.prevented
         /\ ValidZoomBounds(props)
         /\ \/ zoom = props.maxZoom /\ ~(dy > 0)
            \/ zoom = props.minZoom /\ dy > 0
         /\ OnWheel(WheelEvent(p, dy), rect) )
       => (zoom' = zoom /\ pan' = pan)]_vars

\* a second zoom-in step has been taken at maxZoom, which the first one
\* reached, from a pan that is not zero
C4_Witness ==
  /\ ValidZoomBounds(props)
  /\ props.maxZoom = Mul(props.initialZoom, Factor(0))
  /\ h.op = "wheel" /\ h.prevented
  /\ nWheel = 2 /\ nMove = 0
  /\ zoom = props.maxZoom
  /\ pan.x # Zero

\* the pan moved by the whole-pixel vector d
Translate(pn, d) == Vec(Add(pn.x, I2N(d.x)), Add(pn.y, I2N(d.y)))

\* C5: after pointer-down at d, one or more pointer-moves ending at q and a
\* pointer-up, with no wheel event in between, pan has changed by q - d;
\* and a pointer-move while not dragging leaves pan as it is.
C5_DragGesture ==
  (h.op \in {"pointerup", "pointercancel"} /\ g.pointerId # 0 /\ ~g.wheel /\ g.moves >= 1)
    => pan = Translate(g.panAtDown, Vec(g.q.x - g.downAt.x, g.q.y - g.downAt.y))

C5_MoveAfterUp ==
  \A p \in Points, id \in PointerIds :
    (~dragging /\ OnPointerMove(PointerEvent(p, id))) => pan' = pan

\* C5: both parts, the drag gesture in every state and the move after the
\* release in every step
C5_DragRoundTrip == [](C5_DragGesture) /\ [][C5_MoveAfterUp]_vars

\* a drag of two moves that ended away from where it started has been released
C5_Witness ==
  /\ h.op = "pointerup" /\ h.wasDragging
  /\ ~g.wheel /\ g.moves = 2
  /\ g.q # g.downAt
  /\ pan # g.panAtDown

\* C6: a pointer-move handled while not dragging leaves pan, zoom, the drag
\* flag and the last pointer position as they are.
C6_IdleMoveNoEffect ==
  [][\A p \in Points, id \in PointerIds :
       (~dragging /\ OnPointerMove(PointerEvent(p, id)))
       => UNCHANGED <<pan, zoom, dragging, last, cursorStyle>>]_vars

\* a pointer-move has been handled in Idle, after a drag that was released
C6_Witness ==
  /\ h.op = "pointermove" /\ ~h.wasDragging
  /\ g.pointerId # 0 /\ g.moves >= 1
  /\ ~dragging

\* C7: the pan after the moves of a drag is the pan at the pointer-down
\* translated once by the sum of the deltas of the moves, whatever their signs,
\* and is not confined to any range.
C7_PanAdditive ==
  (g.pointerId # 0 /\ ~g.wheel) => pan = Translate(g.panAtDown, g.sum)

\* two moves of a drag have taken the pan below zero
C7_Witness ==
  /\ h.op = "pointermove" /\ h.wasDragging
  /\ ~g.wheel /\ g.moves = 2
  /\ g.sum.x < 0 /\ g.sum.y < 0
  /\ Lt(pan.x, Zero) /\ Lt(pan.y, Zero)

InPhase(off, pitch) == Le(Zero, off) /\ Lt(off, pitch)

\* C8: in every reachable state the grid offsets of a tier whose screen
\* pitch is positive lie, on both axes, in [0, pitch), also for a negative pan.
C8_GridPhaseNormalized ==
  LET v == cssVars
  IN  /\ Gt(v.cellz, Zero) => (InPhase(v.offx, v.cellz) /\ InPhase(v.offy, v.cellz))
      /\ Gt(v.bigz, Zero) => (InPhase(v.offxb, v.bigz) /\ InPhase(v.offyb, v.bigz))

\* C9: a pointer-up or pointer-cancel handled while dragging ends not
\* dragging, has tried to release the pointer capture, lets no exception out
\* of the handler also when the release raised, and leaves pan and zoom alone.
C9_ReleaseSwallowed ==
  [][\A id \in PointerIds, type \in {"pointerup", "pointercancel"}, raises \in BOOLEAN :
       (dragging /\ OnPointerUp([pointerId |-> id], type, raises))
       => /\ ~dragging'
          /\ h'.release = (IF raises THEN "raised" ELSE "released")
          /\ ~h'.threw
          /\ pan' = pan /\ zoom' = zoom]_vars

\* a pointer-cancel has ended a drag and its release raised
C9_Witness ==
  /\ h.op = "pointercancel" /\ h.wasDragging
  /\ h.release = "raised"
  /\ ~dragging /\ ~h.threw

\* C10: no event is handled under a configuration that breaks the contract
\* (minZoom > maxZoom, minZoom <= 0, or a non-positive cell size).
C10_InvalidConfigRejected == ~ValidConfig(props) => h.op = "mount"

\* C11: a wheel event, handled in Idle or in Dragging, with or without the
\* viewport element, leaves the drag flag and the last pointer position as
\* they are.
C11_WheelOrthogonalToDrag ==
  [][h'.op = "wheel" => (dragging' = dragging /\ last' = last)]_vars

\* a wheel step has been taken in the middle of a drag that had moved
C11_Witness ==
  /\ h.op = "wheel" /\ h.prevented /\ h.wasDragging
  /\ dragging
  /\ nMove >= 1
  /\ last # Vec(0, 0)

\* C12: the zoom factor of a wheel step is 9/10 for deltaY > 0 and 11/10
\* otherwise, so a wheel event with another deltaY of the same sign class,
\* at the same point, takes the very same step.
C12_FixedZoomStep ==
  [][\A p \in Points, dy \in WheelDeltas, rect \in RectOrigins :
       ( /\ viewportRef /\ h'.prevented
         /\ OnWheel(WheelEvent(p, dy), rect) )
       => /\ zoom' = clamp(Mul(zoom, IF dy > 0 THEN Norm(9, 10) ELSE Norm(11, 10)),
                           props.minZoom, props.maxZoom)
          /\ \A dy2 \in WheelDeltas \ {dy} :
               ((dy2 > 0) = (dy > 0))
               => LET c == Cursor(WheelEvent(p, dy2), rect)
                      newZoom == NewZoom(zoom, dy2, props)
                  IN  /\ zoom' = newZoom
                      /\ pan' = PanAfterZoom(c, pan, zoom, newZoom)]_vars

\* one zoom-out step has been taken from the default zoom
C12_Witness ==
  /\ props = DefaultProps
  /\ h.op = "wheel" /\ h.prevented
  /\ nWheel = 1
  /\ zoom = Norm(9, 10)

\* C13: every wheel event handled has had its default prevented.
C13_WheelAlwaysPrevented == h.op = "wheel" => h.prevented

\* C14: a wheel step whose result zoom * factor is clamped to a bound, taken
\* with zoom > 0, keeps the world point under the cursor.
C14_ClampedZoomAnchored ==
  [][\A p \in Points, dy \in WheelDeltas, rect \in RectOrigins :
       ( /\ viewportRef /\ h'.prevented
         /\ Gt(zoom, Zero)
         /\ zoom' # Mul(zoom, Factor(dy))
         /\ OnWheel(WheelEvent(p, dy), rect) )
       => LET c == Cursor(WheelEvent(p, dy), rect)
          IN  ScreenToWorld(c, pan', zoom') = ScreenToWorld(c, pan, zoom)]_vars

\* a wheel step from inside the bounds has been clamped to minZoom and has
\* changed the zoom, from a pan that was not zero
C14_Witness ==
  /\ ValidZoomBounds(props)
  /\ props.initialZoom = I2N(1)
  /\ Lt(Norm(9, 10), props.minZoom)
  /\ h.op = "wheel" /\ h.prevented
  /\ nWheel = 1 /\ nMove = 1 /\ g.wheel
  /\ zoom = props.minZoom
  /\ pan.x # Zero

\* C15: with props that keep 0 < minZoom <= maxZoom and positive cell sizes,
\* whatever the initial zoom, zoom is positive in every reachable state and
\* so are the two screen pitches of the grid.
C15_ZoomAndPitchPositive ==
  ValidConfig(props)
    => /\ Gt(zoom, Zero)
       /\ Gt(cssVars.cellz, Zero)
       /\ Gt(cssVars.bigz, Zero)

\* the difference x is a whole multiple of the pitch
IsMultiple(x, pitch) == Div(x, pitch)[2] = 1

\* C16: in every reachable state, on each axis and for each tier, the grid
\* offset differs from the pan by a whole multiple of the tier's screen pitch.
C16_GridLockedToWorld ==
  ValidConfig(props)
    => LET v == cssVars
       IN  /\ IsMultiple(Sub(pan.x, v.offx), v.cellz)
           /\ IsMultiple(Sub(pan.y, v.offy), v.cellz)
           /\ IsMultiple(Sub(pan.x, v.offxb), v.bigz)
           /\ IsMultiple(Sub(pan.y, v.offyb), v.bigz)

\* C17: a pointer-down, pointer-move, pointer-up or pointer-cancel leaves the
\* zoom as it is; a step that changes the zoom is a wheel step.
C17_PointerEventsKeepZoom ==
  [][/\ h'.op \in {"pointerdown", "pointermove", "pointerup", "pointercancel"}
          => zoom' = zoom
     /\ zoom' # zoom => h'.op = "wheel"]_vars

\* a drag with a move has been made and released at a zoom that a wheel
\* step had changed
C17_Witness ==
  /\ h.op \in {"pointerup", "pointercancel"} /\ h.wasDragging
  /\ g.pointerId # 0 /\ g.moves >= 1
  /\ nWheel >= 1
  /\ zoom # props.initialZoom

\* C18: while dragging, after the moves of a drag with no wheel event in
\* between, the world point under the pointer at its last position q is the
\* world point that was under it at the pointer-down position.
C18_DragAnchoring ==
  (dragging /\ g.pointerId # 0 /\ ~g.wheel /\ g.moves >= 1)
    => ScreenToWorld(Vec(I2N(g.q.x), I2N(g.q.y)), pan, zoom)
       = ScreenToWorld(Vec(I2N(g.downAt.x), I2N(g.downAt.y)), g.panAtDown, zoom)

\* a drag that began at a pan and a zoom changed by a wheel step has moved
\* the pointer away from where it went down
C18_Witness ==
  /\ dragging
  /\ h.op = "pointermove" /\ h.wasDragging
  /\ ~g.wheel /\ g.moves >= 1
  /\ g.q # g.downAt
  /\ nWheel >= 1
  /\ Gt(zoom, Zero) /\ zoom # I2N(1)
  /\ g.panAtDown # Vec(Zero, Zero)

\* C19: with the events of two pointers interleaved, the handler is dragging
\* only while the pointer that started the drag is down; a pointer-up or
\* pointer-cancel of a second pointer that went down during the drag leaves
\* the handler dragging; a pointer-down of another pointer leaves it dragging;
\* a move of the starting pointer changes pan by that pointer's own movement,
\* and a move of another pointer leaves pan as it is.
C19_SinglePointerDrag ==
  [][/\ dragging' => g'.held
     /\ \A id \in TwoPointerIds, type \in {"pointerup", "pointercancel"},
           raises \in BOOLEAN :
          ( /\ dragging /\ g.held /\ id = g.second
            /\ OnPointerUp([pointerId |-> id], type, raises) )
          => dragging'
     /\ \A p \in Points, id \in TwoPointerIds, raises \in BOOLEAN :
          ( /\ dragging /\ g.held /\ id # g.pointerId
            /\ OnPointerDown(PointerEvent(p, id), raises) )
          => dragging'
     /\ \A p \in Points, id \in TwoPointerIds :
          ( /\ dragging /\ g.held
            /\ OnPointerMove(PointerEvent(p, id)) )
          => pan' = IF id = g.pointerId
                    THEN Translate(pan, Vec(p[1] - g.starterAt.x, p[2] - g.starterAt.y))
                    ELSE pan]_vars

\* C20: a pointer-down whose capture of the pointer raises, handled while
\* not dragging, leaves the handler not dragging and the last pointer
\* position as it was; so whenever the handler is dragging the capture was
\* acquired by the pointer-down that started the drag.
C20_NoHalfStartedDrag ==
  [][\A p \in Points, id \in PointerIds :
       (~dragging /\ OnPointerDown(PointerEvent(p, id), TRUE))
       => (~dragging' /\ last' = last)]_vars

====
